---- MODULE Spec2Model ----
(***************************************************************************)
(* A model of the three Streamlit pages of the dashboard:                  *)
(*   1_Aquisicoes_MS.py  (load_coagulopatias_data, year filter, charts)    *)
(*   2_Emicizumabe.py    (load_csv_auto, read-only tables)                 *)
(*   Hemo_8R.py          (load_ms_data, load_data/parse_periodo, ranking)  *)
(*                                                                         *)
(* Text is a sequence of one-character strings, so that strip, lower,      *)
(* replace, the regular expression of parse_periodo and pandas' numeric    *)
(* parser are computed character by character.  The letter c-cedilla is    *)
(* written "c-cedilla" (and its capital "C-cedilla"): one element of the   *)
(* sequence, one character of the text.                                    *)
(***************************************************************************)
EXTENDS Integers, Sequences, FiniteSets, TLC

VARIABLES
    page,            \* the page script the session runs
    pc,              \* position of the script run
    screen,          \* elements rendered so far in this run, in order
    coag_file,       \* medicamentos_coagulopatias.csv as on disk
    df,              \* 1_Aquisicoes: the (cached) result of load_coagulopatias_data
    intervalo_anos,  \* 1_Aquisicoes: the year slider's value, <<>> before its first run
    meds_widget,     \* 1_Aquisicoes: the multiselect's options and value
    df_filtrado,     \* 1_Aquisicoes: the filtered copy
    total_anual,     \* 1_Aquisicoes: sums by year of the filtered copy
    comp_anual_medicamento, \* 1_Aquisicoes: sums by year and medicine
    df_meds,         \* 1_Aquisicoes: sums by year and medicine of the selection
    emi_fs,          \* 2_Emicizumabe: per path, the separators pd.read_csv raises with
    emi_calls,       \* 2_Emicizumabe: the load_csv_auto calls made, with their reads
    ms_file,         \* hemo8R_MS.csv as on disk
    hemo_file,       \* historico_hemo8r.csv as on disk
    df_ms,           \* Hemo_8R: the (cached) result of load_ms_data
    df_hemo,         \* Hemo_8R: the (cached) result of load_data
    top_n,           \* Hemo_8R: the ranking slider's value
    rank             \* Hemo_8R: the ranking table

vars == <<page, pc, screen, coag_file, df, intervalo_anos, meds_widget, df_filtrado,
          total_anual, comp_anual_medicamento, df_meds, emi_fs, emi_calls, ms_file,
          hemo_file, df_ms, df_hemo, top_n, rank>>

aq_vars == <<coag_file, df, intervalo_anos, meds_widget, df_filtrado, total_anual,
             comp_anual_medicamento, df_meds>>
emi_vars == <<emi_fs, emi_calls>>
hemo_vars == <<ms_file, hemo_file, df_ms, df_hemo, top_n, rank>>

-----------------------------------------------------------------------------
(* Characters and text *)

CCedilla == "c-cedilla"
UpperCCedilla == "C-cedilla"

LowerLetters ==
    <<"a","b","c","d","e","f","g","h","i","j","k","l","m",
      "n","o","p","q","r","s","t","u","v","w","x","y","z", CCedilla>>

UpperLetters ==
    <<"A","B","C","D","E","F","G","H","I","J","K","L","M",
      "N","O","P","Q","R","S","T","U","V","W","X","Y","Z", UpperCCedilla>>

DigitChars == <<"0","1","2","3","4","5","6","7","8","9">>

Range(f) == {f[i] : i \in DOMAIN f}

IsDigit(c) == c \in Range(DigitChars)

IsSpace(c) == c = " "

DigitVal(c) == (CHOOSE i \in DOMAIN DigitChars : DigitChars[i] = c) - 1

\* A missing cell (NaN in a dtype=str frame).
NA == <<"<NA>">>

\* str.lower() of one character
LowerChar(c) ==
    IF c \in Range(UpperLetters)
    THEN LowerLetters[CHOOSE i \in DOMAIN UpperLetters : UpperLetters[i] = c]
    ELSE c

\* str.lower()
Lower(s) == [i \in DOMAIN s |-> LowerChar(s[i])]

RECURSIVE LStrip(_)
LStrip(s) == IF s # <<>> /\ IsSpace(Head(s)) THEN LStrip(Tail(s)) ELSE s

RECURSIVE RStrip(_)
RStrip(s) ==
    IF s # <<>> /\ IsSpace(s[Len(s)]) THEN RStrip(SubSeq(s, 1, Len(s) - 1)) ELSE s

\* str.strip()
Strip(s) == RStrip(LStrip(s))

\* str.replace(old, new) for a one-character old; new is a text (maybe empty)
RECURSIVE Replace(_, _, _)
Replace(s, old, new) ==
    IF s = <<>> THEN <<>>
    ELSE (IF Head(s) = old THEN new ELSE <<Head(s)>>) \o Replace(Tail(s), old, new)

\* the longest prefix of s made of decimal digits
RECURSIVE TakeDigits(_)
TakeDigits(s) ==
    IF s # <<>> /\ IsDigit(Head(s)) THEN <<Head(s)>> \o TakeDigits(Tail(s)) ELSE <<>>

Drop(s, n) == SubSeq(s, n + 1, Len(s))

\* int() of a text of decimal digits
RECURSIVE DigitsToInt(_)
DigitsToInt(s) ==
    IF s = <<>> THEN 0 ELSE 10 * DigitsToInt(SubSeq(s, 1, Len(s) - 1)) + DigitVal(s[Len(s)])

RECURSIVE Pow10(_)
Pow10(n) == IF n = 0 THEN 1 ELSE 10 * Pow10(n - 1)

\* Code-point order of the characters the inputs use, for sorting text.
CharOrder == <<" ", ",", "-", ".", "/">> \o DigitChars \o UpperLetters \o LowerLetters

CharRank(c) == CHOOSE i \in DOMAIN CharOrder : CharOrder[i] = c

RECURSIVE StrLess(_, _)
StrLess(a, b) ==
    IF b = <<>> THEN FALSE
    ELSE IF a = <<>> THEN TRUE
    ELSE IF Head(a) = Head(b) THEN StrLess(Tail(a), Tail(b))
    ELSE CharRank(Head(a)) < CharRank(Head(b))

-----------------------------------------------------------------------------
(* Numbers as pandas holds them: a float64 is nan, +-inf, or the decimal    *)
(* m * 10^-d with m a signed integer.                                       *)

NaN == [k |-> "nan", m |-> 0, d |-> 0]
Inf(sign) == [k |-> "inf", m |-> sign, d |-> 0]
Num(m, d) == [k |-> "num", m |-> m, d |-> d]

IsNaN(x) == x.k = "nan"
IsFinite(x) == x.k = "num"

InfWords ==
    { <<"i","n","f">>, <<"i","n","f","i","n","i","t","y">> }

\* pd.to_numeric(..., errors="coerce") of one text cell: pandas' floatify /
\* xstrtod: leading blanks, a sign, digits, a decimal point and digits (at least
\* one digit in all), trailing blanks, then the end of the text; else one of the
\* words inf / infinity with an optional sign, in any letter case; else NaN.
\* (The exponent part is left out: no input text of the model holds e or E.)
ToNumeric(cell) ==
    IF cell = NA THEN NaN
    ELSE
    LET s0     == LStrip(cell)
        signed == s0 # <<>> /\ Head(s0) \in {"-", "+"}
        sign   == IF signed /\ Head(s0) = "-" THEN -1 ELSE 1
        s1     == IF signed THEN Tail(s0) ELSE s0
        ip     == TakeDigits(s1)
        s2     == Drop(s1, Len(ip))
        dotted == s2 # <<>> /\ Head(s2) = "."
        s3     == IF dotted THEN Tail(s2) ELSE s2
        fp     == IF dotted THEN TakeDigits(s3) ELSE <<>>
        s4     == LStrip(Drop(s3, Len(fp)))
        word   == Lower(cell)
        sword  == cell # <<>> /\ Head(cell) \in {"-", "+"} /\ Lower(Tail(cell)) \in InfWords
    IN  IF Len(ip) + Len(fp) > 0 /\ s4 = <<>>
        THEN Num(sign * DigitsToInt(ip \o fp), Len(fp))
        ELSE IF word \in InfWords THEN Inf(1)
        ELSE IF sword THEN Inf(IF Head(cell) = "-" THEN -1 ELSE 1)
        ELSE NaN

\* Series.fillna(0) on a float column
FillNa0(x) == IF IsNaN(x) THEN Num(0, 0) ELSE x

\* Series.astype(int) of one finite value: truncation toward zero.  A column
\* holding a non-finite value makes astype(int) raise (IntCastingNaNError).
AsInt(x) ==
    IF x.m >= 0 THEN x.m \div Pow10(x.d) ELSE -((-x.m) \div Pow10(x.d))

\* float addition
Add(a, b) ==
    IF IsNaN(a) \/ IsNaN(b) THEN NaN
    ELSE IF a.k = "inf" /\ b.k = "inf" THEN (IF a.m = b.m THEN a ELSE NaN)
    ELSE IF a.k = "inf" THEN a
    ELSE IF b.k = "inf" THEN b
    ELSE LET dd == IF a.d > b.d THEN a.d ELSE b.d
         IN  Num(a.m * Pow10(dd - a.d) + b.m * Pow10(dd - b.d), dd)

\* x >= 0 on floats (false for nan)
NonNegative(x) == ~IsNaN(x) /\ x.m >= 0

\* sum of column col of a table of records, from zero
RECURSIVE SumCol(_, _)
SumCol(rows, col) ==
    IF rows = <<>> THEN Num(0, 0)
    ELSE Add(SumCol(SubSeq(rows, 1, Len(rows) - 1), col), rows[Len(rows)][col])

\* a < b on floats (false when either is nan)
NumLess(a, b) ==
    IF IsNaN(a) \/ IsNaN(b) THEN FALSE
    ELSE IF a.k = "inf" THEN a.m < 0 /\ ~(b.k = "inf" /\ b.m < 0)
    ELSE IF b.k = "inf" THEN b.m > 0
    ELSE LET dd == IF a.d > b.d THEN a.d ELSE b.d
         IN  a.m * Pow10(dd - a.d) < b.m * Pow10(dd - b.d)

\* Series.sort_values / DataFrame.sort_values on ONE column with the default
\* kind="quicksort": numpy's argsort, which is not stable, so the order of rows
\* with equal keys is whatever the build produces.  The set of index orders it
\* may return for the keys: every order that is sorted.
RECURSIVE ArgSorts(_, _, _)
ArgSorts(keys, left, ascending) ==
    IF left = {} THEN {<<>>}
    ELSE LET first == {i \in left : \A j \in left :
                          IF ascending THEN ~NumLess(keys[j], keys[i])
                                       ELSE ~NumLess(keys[i], keys[j])}
         IN  UNION {{<<i>> \o t : t \in ArgSorts(keys, left \ {i}, ascending)} : i \in first}

\* the rows of a table taken in the order of an index sequence
Take(rows, order) == [i \in DOMAIN order |-> rows[order[i]]]

\* the rows of a table that satisfy keep (a set of positions), in order
RECURSIVE SelectRows(_, _)
SelectRows(rows, keep) ==
    IF rows = <<>> THEN <<>>
    ELSE SelectRows(SubSeq(rows, 1, Len(rows) - 1), keep)
         \o (IF Len(rows) \in keep THEN <<rows[Len(rows)]>> ELSE <<>>)

\* a finite set of texts as the sequence in ascending (code-point) order
RECURSIVE SortedTexts(_)
SortedTexts(S) ==
    IF S = {} THEN <<>>
    ELSE LET lo == CHOOSE x \in S : \A y \in S : ~StrLess(y, x)
         IN  <<lo>> \o SortedTexts(S \ {lo})

-----------------------------------------------------------------------------
(* Hemo_8R.py: load_data and parse_periodo *)

Janeiro   == <<"j","a","n","e","i","r","o">>
Fevereiro == <<"f","e","v","e","r","e","i","r","o">>
MarcoCed  == <<"m","a","r",CCedilla,"o">>
Marco     == <<"m","a","r","c","o">>
Abril     == <<"a","b","r","i","l">>
Maio      == <<"m","a","i","o">>
Junho     == <<"j","u","n","h","o">>
Julho     == <<"j","u","l","h","o">>
Agosto    == <<"a","g","o","s","t","o">>
Setembro  == <<"s","e","t","e","m","b","r","o">>
Outubro   == <<"o","u","t","u","b","r","o">>
Novembro  == <<"n","o","v","e","m","b","r","o">>
Dezembro  == <<"d","e","z","e","m","b","r","o">>

\* the dict meses, as its items
meses ==
    { <<Janeiro, 1>>, <<Fevereiro, 2>>, <<MarcoCed, 3>>, <<Marco, 3>>, <<Abril, 4>>,
      <<Maio, 5>>, <<Junho, 6>>, <<Julho, 7>>, <<Agosto, 8>>, <<Setembro, 9>>,
      <<Outubro, 10>>, <<Novembro, 11>>, <<Dezembro, 12>> }

\* meses.get(mon): the value, or 0 for None (both are falsy in `if not mes`)
MesesGet(mon) ==
    IF \E it \in meses : it[1] = mon
    THEN (CHOOSE it \in meses : it[1] = mon)[2]
    ELSE 0

IsRegexLetter(c) == c \in Range(LowerLetters)

\* the longest prefix of s matching [a-z c-cedilla]
RECURSIVE TakeLetters(_)
TakeLetters(s) ==
    IF s # <<>> /\ IsRegexLetter(Head(s)) THEN <<Head(s)>> \o TakeLetters(Tail(s)) ELSE <<>>

AllDigits(s) == \A i \in DOMAIN s : IsDigit(s[i])

YearShort == 2
YearLong == 4

\* group 2 of the regex, (\d{2}|\d{4}), matched at the front of s: the first
\* alternative that matches wins, and as nothing follows the group in the
\* pattern (re.match does not anchor the end) no backtracking ever reaches the
\* second.  <<>> when neither matches.
YearGroupLongFirst(s) ==
    IF Len(s) >= YearLong /\ AllDigits(SubSeq(s, 1, YearLong)) THEN SubSeq(s, 1, YearLong)
    ELSE IF Len(s) >= YearShort /\ AllDigits(SubSeq(s, 1, YearShort)) THEN SubSeq(s, 1, YearShort)
    ELSE <<>>

YearGroup(s) ==
    IF Len(s) >= YearShort /\ AllDigits(SubSeq(s, 1, YearShort)) THEN SubSeq(s, 1, YearShort)
    ELSE IF Len(s) >= YearLong /\ AllDigits(SubSeq(s, 1, YearLong)) THEN SubSeq(s, 1, YearLong)
    ELSE <<>>

\* re.match(r"([a-z c-cedilla]+)\/?(\d{2}|\d{4})", s): the groups, or no match.
\* The letter run is the longest one: what follows it in the pattern is a slash
\* or a digit, so giving letters back never helps.  The slash is optional.
ReMatch(s) ==
    LET g1   == TakeLetters(s)
        r1   == Drop(s, Len(g1))
        r2   == IF r1 # <<>> /\ Head(r1) = "/" THEN Tail(r1) ELSE r1
        g2   == YearGroup(r2)
    IN  IF g1 # <<>> /\ g2 # <<>>
        THEN [matched |-> TRUE, g1 |-> g1, g2 |-> g2]
        ELSE [matched |-> FALSE, g1 |-> <<>>, g2 |-> <<>>]

NaT == [k |-> "NaT", year |-> 0, month |-> 0, day |-> 0]
DateError == [k |-> "ValueError", year |-> 0, month |-> 0, day |-> 0]

MinYear == 1
MaxYear == 9999
Century == 2000
TwoDigitLimit == 100

\* datetime.date(year, month, day) for day 1: ValueError outside MINYEAR..MAXYEAR
\* or months 1..12
Date(year, month) ==
    IF year < MinYear \/ year > MaxYear \/ month < 1 \/ month > 12
    THEN DateError
    ELSE [k |-> "date", year |-> year, month |-> month, day |-> 1]

\* str(cell) for a cell of a dtype=str frame: a missing cell is the float nan
StrOf(cell) == IF cell = NA THEN <<"n","a","n">> ELSE cell

parse_periodo(cell) ==
    LET s    == Lower(Strip(StrOf(cell)))
        m    == ReMatch(s)
        mon  == Replace(m.g1, CCedilla, <<"c">>)
        ano0 == DigitsToInt(m.g2)
        ano  == IF ano0 < TwoDigitLimit THEN Century + ano0 ELSE ano0
        mes  == MesesGet(mon)
    IN  IF ~m.matched THEN NaT
        ELSE IF mes = 0 THEN NaT
        ELSE Date(ano, mes)

\* Column names of historico_hemo8r.csv (written without their diacritics).
ColPeriodo == "Periodo de saida"
ColServico == "Servico de Saude"
ColTotal   == "Total Geral"

ui_cols == <<"250 UI", "500 UI", "1000 UI", "1500 UI", ColTotal>>

base_cols == <<ColPeriodo, ColServico>> \o ui_cols

Raised(err) == [st |-> "raise", err |-> err, rows |-> <<>>]
Loaded(rows) == [st |-> "ok", err |-> "", rows |-> rows]
Unloaded == [st |-> "unloaded", err |-> "", rows |-> <<>>]

\* Series.fillna("0") on a text cell
FillNaText(cell) == IF cell = NA THEN <<"0">> ELSE cell

\* the text handed to pd.to_numeric for a UI cell (lines 33-38)
CleanUI(cell) == Strip(Replace(FillNaText(cell), ".", <<>>))

\* the float a UI cell becomes before astype(int) (line 39)
UIValue(cell) == FillNa0(ToNumeric(CleanUI(cell)))

\* DataFrame.dropna(subset=["periodo"]): the positions kept
DropNaPeriodo(file) ==
    {i \in DOMAIN file.rows : parse_periodo(file.rows[i][ColPeriodo]) # NaT}

\* load_data(path_csv) on the file's content.  A file is
\*   [readable, header (the set of column names), rows (one function from
\*    column name to text cell per line)];
\* a frame is Loaded(rows) with the pandas index kept in field "index"
\* (position in the file, from 1), or Raised(exception).
load_data(file) ==
    IF ~file.readable THEN Raised("FileNotFoundError")
    ELSE IF ~(Range(base_cols) \subseteq file.header) THEN Raised("KeyError")
    ELSE IF \E i \in DOMAIN file.rows : \E c \in Range(ui_cols) :
                ~IsFinite(UIValue(file.rows[i][c]))
    THEN Raised("IntCastingNaNError")
    ELSE IF \E i \in DOMAIN file.rows :
                parse_periodo(file.rows[i][ColPeriodo]) = DateError
    THEN Raised("ValueError")
    ELSE LET out(i) ==
                 [c \in Range(base_cols) \cup {"index", "periodo"} |->
                     IF c = "index" THEN i
                     ELSE IF c = "periodo" THEN parse_periodo(file.rows[i][ColPeriodo])
                     ELSE IF c \in Range(ui_cols) THEN AsInt(UIValue(file.rows[i][c]))
                     ELSE file.rows[i][c]]
         IN  Loaded(SelectRows([i \in DOMAIN file.rows |-> out(i)], DropNaPeriodo(file)))

-----------------------------------------------------------------------------
(* Hemo_8R.py: load_ms_data *)

\* DataFrame.rename(columns={"ano": "Ano", "quantidade": "Quantidade"})
RenameMS(c) == IF c = "ano" THEN "Ano" ELSE IF c = "quantidade" THEN "Quantidade" ELSE c

\* one line of hemo8R_MS.csv after the rename and the two pd.to_numeric calls
MSRow(file, i) ==
    [c \in {RenameMS(h) : h \in file.header} \cup {"index"} |->
        IF c = "index" THEN i
        ELSE LET h == CHOOSE h \in file.header : RenameMS(h) = c
             IN  IF c \in {"Ano", "Quantidade"} THEN ToNumeric(file.rows[i][h])
                 ELSE file.rows[i][h]]

\* a missing value in a row of the renamed frame: NaN in a numeric column, a
\* missing text elsewhere
IsMissing(c, v) == IF c \in {"Ano", "Quantidade"} THEN IsNaN(v) ELSE v = NA

\* DataFrame.dropna(): the positions of the rows with no missing value at all
DropNaAny(file) ==
    {i \in DOMAIN file.rows :
        \A c \in {RenameMS(h) : h \in file.header} : ~IsMissing(c, MSRow(file, i)[c])}

\* load_ms_data(path_csv): the frames it may return (the sort on "Ano" leaves
\* the order of equal years open), or the exception.
load_ms_data(file) ==
    IF ~file.readable THEN {Raised("FileNotFoundError")}
    ELSE IF ~({"Ano", "Quantidade"} \subseteq {RenameMS(h) : h \in file.header})
    THEN {Raised("KeyError")}
    ELSE LET kept == SelectRows([i \in DOMAIN file.rows |-> MSRow(file, i)], DropNaAny(file))
             keys == [i \in DOMAIN kept |-> kept[i]["Ano"]]
         IN  {Loaded(Take(kept, o)) : o \in ArgSorts(keys, DOMAIN kept, TRUE)}

-----------------------------------------------------------------------------
(* Hemo_8R.py: the ranking (lines 148-155) *)

TopNMin == 5
TopNMax == 31
TopNDefault == 15

\* sum of an integer column over the rows of one service
RECURSIVE SumServico(_, _)
SumServico(rows, servico) ==
    IF rows = <<>> THEN 0
    ELSE SumServico(Tail(rows), servico)
         + (IF Head(rows)[ColServico] = servico THEN Head(rows)[ColTotal] ELSE 0)

\* df.groupby("Servico de Saude")["Total Geral"].sum().reset_index(): one row
\* per service, in ascending order of the service name
GroupByServico(rows) ==
    LET names == SortedTexts({rows[i][ColServico] : i \in DOMAIN rows} \ {NA})
    IN  [i \in DOMAIN names |->
            [servico |-> names[i], total |-> SumServico(rows, names[i])]]

\* DataFrame.head(n)
HeadNOffByOne(rows, n) == SubSeq(rows, 1, IF n - 1 < Len(rows) THEN n - 1 ELSE Len(rows))

HeadN(rows, n) == SubSeq(rows, 1, IF n < Len(rows) THEN n ELSE Len(rows))

\* the tables `rank` may be: .sort_values("Total Geral", ascending=False) sorts
\* on one column with the default, unstable kind
RankOutcomes(rows, n) ==
    LET g    == GroupByServico(rows)
        keys == [i \in DOMAIN g |-> Num(g[i].total, 0)]
    IN  {HeadN(Take(g, o), n) : o \in ArgSorts(keys, DOMAIN g, FALSE)}

-----------------------------------------------------------------------------
(* 2_Emicizumabe.py: load_csv_auto *)

PATH_HB == "dados_emicizumabe_HB.csv"
PATH_ROCHE == "dados_emicizumabe_ROCHE.csv"

\* the delimiter candidates of the for loop, in its order ("None" is sep=None
\* with engine="python")
SepCandidatesCommaFirst == <<",", ";", "None">>

SepCandidates == <<";", ",", "None">>

\* load_csv_auto(path), where fails is the set of candidates pd.read_csv raises
\* with on this file: the loop from candidate i on, reads being the reads made
\* so far.  A read that does not raise returns its frame at once; the frame is
\* named by the path and the separator that parsed it.
RECURSIVE LoadCsvFrom(_, _, _, _)
LoadCsvFrom(path, fails, i, reads) ==
    IF i > Len(SepCandidates)
    THEN [raised |-> TRUE, msg |-> <<"Falha ao ler CSV: ", path>>,
          frame |-> <<>>, reads |-> reads]
    ELSE IF SepCandidates[i] \in fails
    THEN LoadCsvFrom(path, fails, i + 1, Append(reads, SepCandidates[i]))
    ELSE [raised |-> FALSE, msg |-> <<>>,
          frame |-> <<path, SepCandidates[i]>>, reads |-> Append(reads, SepCandidates[i])]

load_csv_auto(path, fails) == LoadCsvFrom(path, fails, 1, <<>>)

-----------------------------------------------------------------------------
(* 1_Aquisicoes_MS.py: load_coagulopatias_data *)

medicamento == <<"m","e","d","i","c","a","m","e","n","t","o">>

\* year_cols (line 24): the positions of the columns whose lower-cased name is
\* not "medicamento", in file order
RECURSIVE YearColsFrom(_, _)
YearColsFrom(header, j) ==
    IF j > Len(header) THEN <<>>
    ELSE (IF Lower(header[j]) # medicamento THEN <<j>> ELSE <<>>)
         \o YearColsFrom(header, j + 1)

year_cols(header) == YearColsFrom(header, 1)

\* the text handed to pd.to_numeric for a Quantidade cell (lines 41-47)
CleanQuantidade(cell) == Replace(Replace(FillNaText(cell), ".", <<>>), ",", <<".">>)

\* the Quantidade a cell becomes (line 48)
Quantidade(cell) == FillNa0(ToNumeric(CleanQuantidade(cell)))

\* (Ano, medicamento) order of sort_values(["Ano", "medicamento"])
CoagLess(a, b) ==
    a.Ano < b.Ano \/ (a.Ano = b.Ano /\ StrLess(a.medicamento, b.medicamento))

\* sort_values on several columns is a lexsort, which is stable: rows with equal
\* keys keep their order
RECURSIVE InsertCoag(_, _)
InsertCoag(sorted, row) ==
    IF sorted = <<>> THEN <<row>>
    ELSE IF CoagLess(row, sorted[Len(sorted)])
    THEN Append(InsertCoag(SubSeq(sorted, 1, Len(sorted) - 1), row), sorted[Len(sorted)])
    ELSE Append(sorted, row)

RECURSIVE SortCoag(_)
SortCoag(rows) ==
    IF rows = <<>> THEN <<>>
    ELSE InsertCoag(SortCoag(SubSeq(rows, 1, Len(rows) - 1)), rows[Len(rows)])

\* load_coagulopatias_data(path_csv) on the file's content.  A file is
\*   [readable, header (the column names, in order), rows (one sequence of text
\*    cells per line, aligned with the header)].
\* melt needs a column named exactly "medicamento" (id_vars); it yields, for
\* each year column in turn, one row per line of the file.
load_coagulopatias_data(file) ==
    IF ~file.readable THEN Raised("FileNotFoundError")
    ELSE IF medicamento \notin Range(file.header) THEN Raised("KeyError")
    ELSE LET yc     == year_cols(file.header)
             n      == Len(file.rows)
             idpos  == CHOOSE j \in DOMAIN file.header : file.header[j] = medicamento
             col(k) == yc[((k - 1) \div n) + 1]
             lin(k) == ((k - 1) % n) + 1
             melted == [k \in 1..(Len(yc) * n) |->
                          [index       |-> k,
                           medicamento |-> file.rows[lin(k)][idpos],
                           AnoF        |-> ToNumeric(file.header[col(k)]),
                           Quantidade  |-> Quantidade(file.rows[lin(k)][col(k)])]]
             kept   == SelectRows(melted, {k \in DOMAIN melted : ~IsNaN(melted[k].AnoF)})
         IN  IF \E k \in DOMAIN kept : ~IsFinite(kept[k].AnoF)
             THEN Raised("IntCastingNaNError")
             ELSE Loaded(SortCoag([k \in DOMAIN kept |->
                          [index       |-> kept[k].index,
                           medicamento |-> kept[k].medicamento,
                           Ano         |-> AsInt(kept[k].AnoF),
                           Quantidade  |-> kept[k].Quantidade]]))

\* df[(df["Ano"] >= lo) & (df["Ano"] <= hi)].copy()
FilterByAno(rows, lo, hi) ==
    SelectRows(rows, {i \in DOMAIN rows : rows[i].Ano >= lo /\ rows[i].Ano <= hi})

\* a finite set of integers as the ascending sequence
RECURSIVE SortedInts(_)
SortedInts(S) ==
    IF S = {} THEN <<>>
    ELSE LET lo == CHOOSE x \in S : \A y \in S : x <= y
         IN  <<lo>> \o SortedInts(S \ {lo})

Anos(rows) == {rows[i].Ano : i \in DOMAIN rows}
Medicamentos(rows) == {rows[i].medicamento : i \in DOMAIN rows}

\* groupby("Ano", as_index=False)["Quantidade"].sum().sort_values("Ano")
GroupByAno(rows) ==
    LET anos == SortedInts(Anos(rows))
    IN  [i \in DOMAIN anos |->
            [Ano |-> anos[i],
             Quantidade |-> SumCol(SelectRows(rows, {r \in DOMAIN rows : rows[r].Ano = anos[i]}),
                                   "Quantidade")]]

\* groupby(["Ano", "medicamento"], as_index=False)["Quantidade"].sum(): one row
\* per pair present, years ascending and names ascending within a year
RECURSIVE GroupByAnoMedFrom(_, _)
GroupByAnoMedFrom(rows, anos) ==
    IF anos = <<>> THEN <<>>
    ELSE LET ofAno == SelectRows(rows, {r \in DOMAIN rows : rows[r].Ano = Head(anos)})
             meds  == SortedTexts(Medicamentos(ofAno))
         IN  [i \in DOMAIN meds |->
                 [Ano |-> Head(anos), medicamento |-> meds[i],
                  Quantidade |-> SumCol(SelectRows(ofAno,
                                     {r \in DOMAIN ofAno : ofAno[r].medicamento = meds[i]}),
                                     "Quantidade")]]
             \o GroupByAnoMedFrom(rows, Tail(anos))

GroupByAnoMed(rows) == GroupByAnoMedFrom(rows, SortedInts(Anos(rows)))

\* df_filtrado[df_filtrado["medicamento"].isin(sel)]
IsIn(rows, sel) == SelectRows(rows, {i \in DOMAIN rows : rows[i].medicamento \in sel})

MedsDefaultMax == 5

\* the multiselect's default (line 175): the first five options when there are
\* more than five, else all of them
MedsDefault(options) ==
    IF Len(options) > MedsDefaultMax THEN SubSeq(options, 1, MedsDefaultMax) ELSE options

-----------------------------------------------------------------------------
(* The page scripts.  A run goes top to bottom; st.stop() and an uncaught    *)
(* exception end it; moving a widget starts a new run, in which a loader     *)
(* decorated with st.cache_data returns the frame it returned before.        *)

El(sec, kind) == [sec |-> sec, kind |-> kind]

Times(n, e) == [i \in 1..n |-> e]

NoWidget == [options |-> <<>>, value |-> {}, set |-> FALSE]

(* ---- 1_Aquisicoes_MS.py ---- *)

\* lines 13, 65-73: the title, the load in its try/except, the empty check
AqLoad ==
    /\ page = "Aquisicoes" /\ pc = "start"
    /\ LET r == IF df.st = "ok" THEN df ELSE load_coagulopatias_data(coag_file)
       IN  /\ df' = r
           /\ IF r.st = "raise"
              THEN screen' = <<El("aq", "title"), El("aq", "error")>> /\ pc' = "stopped"
              ELSE IF r.rows = <<>>
              THEN screen' = <<El("aq", "title"), El("aq", "warning")>> /\ pc' = "stopped"
              ELSE screen' = <<El("aq", "title")>> /\ pc' = "loaded"
    /\ UNCHANGED <<page, coag_file, intervalo_anos, meds_widget, df_filtrado,
                   total_anual, comp_anual_medicamento, df_meds, emi_vars, hemo_vars>>

ano_min == CHOOSE a \in Anos(df.rows) : \A b \in Anos(df.rows) : a <= b
ano_max == CHOOSE a \in Anos(df.rows) : \A b \in Anos(df.rows) : a >= b

\* lines 78-108: the slider (its value is the whole range until the user moves
\* it), the filtered copy and the three metrics.  int() of a sum that is not
\* finite raises, and nothing catches it.
AqFilterInPlace ==
    /\ page = "Aquisicoes" /\ pc = "loaded"
    /\ LET iv == IF intervalo_anos = <<>> THEN <<ano_min, ano_max>> ELSE intervalo_anos
           f  == FilterByAno(df.rows, iv[1], iv[2])
       IN  /\ intervalo_anos' = iv
           /\ df_filtrado' = f
           /\ df' = Loaded(f)
           /\ screen' = screen \o <<El("aq", "slider")>> \o Times(3, El("aq", "metric"))
           /\ pc' = "filtered"
    /\ UNCHANGED <<page, coag_file, meds_widget, total_anual,
                   comp_anual_medicamento, df_meds, emi_vars, hemo_vars>>

AqFilter ==
    /\ page = "Aquisicoes" /\ pc = "loaded"
    /\ LET iv == IF intervalo_anos = <<>> THEN <<ano_min, ano_max>> ELSE intervalo_anos
           f  == FilterByAno(df.rows, iv[1], iv[2])
       IN  /\ intervalo_anos' = iv
           /\ df_filtrado' = f
           /\ IF IsFinite(SumCol(f, "Quantidade"))
              THEN /\ screen' = screen \o <<El("aq", "slider")>> \o Times(3, El("aq", "metric"))
                   /\ pc' = "filtered"
              ELSE /\ screen' = screen \o <<El("aq", "slider"), El("aq", "exception")>>
                   /\ pc' = "crashed"
    /\ UNCHANGED <<page, coag_file, df, meds_widget, total_anual,
                   comp_anual_medicamento, df_meds, emi_vars, hemo_vars>>

\* lines 113-209: the three aggregations with their charts, the multiselect
\* (which keeps its value while its options stay the same) and the table
AqAggregate ==
    /\ page = "Aquisicoes" /\ pc = "filtered"
    /\ LET options == SortedTexts(Medicamentos(df_filtrado))
           sel     == IF meds_widget.set /\ meds_widget.options = options
                      THEN meds_widget.value
                      ELSE Range(MedsDefault(options))
       IN  /\ total_anual' = GroupByAno(df_filtrado)
           /\ comp_anual_medicamento' = GroupByAnoMed(df_filtrado)
           /\ meds_widget' = [options |-> options, value |-> sel, set |-> TRUE]
           /\ df_meds' = IF sel # {} THEN GroupByAnoMed(IsIn(df_filtrado, sel)) ELSE <<>>
           /\ screen' = screen \o <<El("aq", "chart"), El("aq", "chart"), El("aq", "multiselect"),
                                    IF sel # {} THEN El("aq", "chart") ELSE El("aq", "info"),
                                    El("aq", "table")>>
           /\ pc' = "done"
    /\ UNCHANGED <<page, coag_file, df, intervalo_anos, df_filtrado, emi_vars, hemo_vars>>

AqRerun ==
    /\ pc' = "start"
    /\ screen' = <<>>
    /\ df_filtrado' = <<>>
    /\ total_anual' = <<>>
    /\ comp_anual_medicamento' = <<>>
    /\ df_meds' = <<>>
    /\ UNCHANGED <<page, coag_file, df, emi_vars, hemo_vars>>

\* the user moves the year slider (min_value=ano_min, max_value=ano_max, step=1)
AqSlider ==
    /\ page = "Aquisicoes" /\ pc = "done"
    /\ \E lo \in ano_min..ano_max : \E hi \in lo..ano_max :
          /\ <<lo, hi>> # intervalo_anos
          /\ intervalo_anos' = <<lo, hi>>
    /\ UNCHANGED meds_widget
    /\ AqRerun

\* the user changes the selection of medicines
AqMultiselect ==
    /\ page = "Aquisicoes" /\ pc = "done"
    /\ \E sel \in SUBSET Range(meds_widget.options) :
          /\ sel # meds_widget.value
          /\ meds_widget' = [meds_widget EXCEPT !.value = sel]
    /\ UNCHANGED intervalo_anos
    /\ AqRerun

(* ---- 2_Emicizumabe.py ---- *)

Call(path, r) == [path |-> path, raised |-> r.raised, msg |-> r.msg,
                  frame |-> r.frame, reads |-> r.reads]

\* lines 8, 26-31: the title and the two loads in one try/except
EmiLoad ==
    /\ page = "Emicizumabe" /\ pc = "start"
    /\ LET hb    == load_csv_auto(PATH_HB, emi_fs[PATH_HB])
           roche == load_csv_auto(PATH_ROCHE, emi_fs[PATH_ROCHE])
       IN  IF hb.raised
           THEN /\ emi_calls' = <<Call(PATH_HB, hb)>>
                /\ screen' = <<El("emi", "title"), El("emi", "error")>>
                /\ pc' = "stopped"
           ELSE /\ emi_calls' = <<Call(PATH_HB, hb), Call(PATH_ROCHE, roche)>>
                /\ IF roche.raised
                   THEN screen' = <<El("emi", "title"), El("emi", "error")>> /\ pc' = "stopped"
                   ELSE screen' = <<El("emi", "title")>> /\ pc' = "loaded"
    /\ UNCHANGED <<page, emi_fs, aq_vars, hemo_vars>>

\* lines 34-56: the two tabs with their read-only tables, and the caption
EmiRender ==
    /\ page = "Emicizumabe" /\ pc = "loaded"
    /\ screen' = screen \o <<El("emi", "tabs"), El("emi", "table"), El("emi", "table"),
                             El("emi", "caption")>>
    /\ pc' = "done"
    /\ UNCHANGED <<page, emi_vars, aq_vars, hemo_vars>>

(* ---- Hemo_8R.py ---- *)

\* lines 16, 83-114: the title and the Ministry section.  A failed load is a
\* warning and an empty frame, and the script goes on.
HemoMS ==
    /\ page = "Hemo8R" /\ pc = "start"
    /\ \E r \in (IF df_ms.st = "ok" THEN {df_ms} ELSE load_ms_data(ms_file)) :
          /\ df_ms' = r
          /\ LET top == <<El("hemo", "title")>>
                        \o (IF r.st = "raise" THEN <<El("ms", "warning")>> ELSE <<>>)
             IN  IF r.rows = <<>>
                 THEN screen' = top \o <<El("ms", "info")>> /\ pc' = "ms_done"
                 ELSE IF IsFinite(SumCol(r.rows, "Quantidade"))
                 THEN /\ screen' = top \o Times(3, El("ms", "metric"))
                                       \o <<El("ms", "chart"), El("ms", "table")>>
                      /\ pc' = "ms_done"
                 ELSE /\ screen' = top \o Times(2, El("ms", "metric")) \o <<El("ms", "exception")>>
                      /\ pc' = "crashed"
    /\ UNCHANGED <<page, ms_file, hemo_file, df_hemo, top_n, rank, aq_vars, emi_vars>>

\* lines 118-124: the load of the services file in its try/except
HemoLoadNoStop ==
    /\ page = "Hemo8R" /\ pc = "ms_done"
    /\ LET r == IF df_hemo.st = "ok" THEN df_hemo ELSE load_data(hemo_file)
       IN  /\ df_hemo' = r
           /\ screen' = screen \o (IF r.st = "raise" THEN <<El("servicos", "error")>> ELSE <<>>)
           /\ pc' = "loaded"
    /\ UNCHANGED <<page, ms_file, hemo_file, df_ms, top_n, rank, aq_vars, emi_vars>>

HemoLoad ==
    /\ page = "Hemo8R" /\ pc = "ms_done"
    /\ LET r == IF df_hemo.st = "ok" THEN df_hemo ELSE load_data(hemo_file)
       IN  /\ df_hemo' = r
           /\ IF r.st = "raise"
              THEN screen' = Append(screen, El("servicos", "error")) /\ pc' = "stopped"
              ELSE screen' = screen /\ pc' = "loaded"
    /\ UNCHANGED <<page, ms_file, hemo_file, df_ms, top_n, rank, aq_vars, emi_vars>>

\* lines 126-171: the five metrics (min() of an empty column has no strftime:
\* an uncaught exception), the monthly chart, the slider, the ranking with its
\* chart, and the table
HemoRender ==
    /\ page = "Hemo8R" /\ pc = "loaded"
    /\ IF df_hemo.rows = <<>>
       THEN /\ screen' = Append(screen, El("servicos", "exception"))
            /\ pc' = "crashed"
            /\ rank' = <<>>
       ELSE /\ rank' \in RankOutcomes(df_hemo.rows, top_n)
            /\ screen' = screen \o Times(5, El("servicos", "metric"))
                                \o <<El("servicos", "chart"), El("servicos", "slider"),
                                     El("servicos", "chart"), El("servicos", "table")>>
            /\ pc' = "done"
    /\ UNCHANGED <<page, ms_file, hemo_file, df_ms, df_hemo, top_n, aq_vars, emi_vars>>

TopNChoices == {TopNMin, TopNMin + 1, TopNDefault, TopNMax}

\* the user moves the ranking slider (5 to 31)
HemoSlider ==
    /\ page = "Hemo8R" /\ pc = "done"
    /\ \E n \in TopNChoices \ {top_n} : top_n' = n
    /\ pc' = "start"
    /\ screen' = <<>>
    /\ rank' = <<>>
    /\ UNCHANGED <<page, ms_file, hemo_file, df_ms, df_hemo, aq_vars, emi_vars>>

-----------------------------------------------------------------------------
(* The files the pages are run on *)

MaxYearCols == 3     \* year columns of medicamentos_coagulopatias.csv
MaxMeds == 2         \* its lines
MaxCellLen == 3      \* length of the generated quantity texts
MaxServicos == 6     \* services of historico_hemo8r.csv
MaxTokRows == 2      \* lines of historico_hemo8r.csv with sample period tokens
MaxMsRows == 2       \* lines of hemo8R_MS.csv
MaxYearDigits == 4   \* digits after the month name in the generated period tokens

RECURSIVE TextsUpTo(_, _)
TextsUpTo(alphabet, n) ==
    IF n = 0 THEN {<<>>}
    ELSE LET prev == TextsUpTo(alphabet, n - 1)
         IN  prev \cup {Append(t, c) : t \in prev, c \in alphabet}

RECURSIVE SeqsUpTo(_, _)
SeqsUpTo(S, n) ==
    IF n = 0 THEN {<<>>}
    ELSE LET prev == SeqsUpTo(S, n - 1)
         IN  prev \cup {Append(t, x) : t \in prev, x \in S}

\* the decimal text of a four-digit year
YearText(y) ==
    <<DigitChars[((y \div 1000) % 10) + 1], DigitChars[((y \div 100) % 10) + 1],
      DigitChars[((y \div 10) % 10) + 1], DigitChars[(y % 10) + 1]>>

\* quantity texts: every text of the alphabet up to MaxCellLen, a missing cell,
\* and the examples of the specification
CellTexts ==
    TextsUpTo({"0", "1", ".", ",", "-"}, MaxCellLen)
    \cup { NA, <<"a","b","c">>, <<"i","n","f">>, <<"3",".","1","0","0">>,
           <<"1",".","2","3","4",",","5","6">>, <<" ","7"," ">> }

NoFile == [readable |-> FALSE, header |-> <<>>, rows |-> <<>>]
NoTable == [readable |-> FALSE, header |-> {}, rows |-> <<>>]

IdNames ==
    { medicamento,
      <<"M","e","d","i","c","a","m","e","n","t","o">>,
      <<"M","E","D","I","C","A","M","E","N","T","O">> }

Obs == <<"o","b","s">>

MedName(i) == <<UpperLetters[i]>>

YearHeaders(S) == [i \in DOMAIN SortedInts(S) |-> YearText(2018 + SortedInts(S)[i])]

\* header variations: the identifier column in three letter cases, first or
\* last, any years, with or without a column that is no year; one line
CoagHeaderFiles ==
    { [readable |-> TRUE,
       header |-> IF first THEN <<id>> \o YearHeaders(S) \o extra
                           ELSE YearHeaders(S) \o extra \o <<id>>,
       rows |-> << IF first
                   THEN <<MedName(1)>> \o Times(Cardinality(S) + Len(extra), <<"1">>)
                   ELSE Times(Cardinality(S) + Len(extra), <<"1">>) \o <<MedName(1)>> >>]
      : id \in IdNames, first \in BOOLEAN, S \in (SUBSET (1..MaxYearCols)) \ {{}},
        extra \in {<<>>, <<Obs>>} }

\* several medicines over several years
CoagTableFiles ==
    { [readable |-> TRUE,
       header |-> <<medicamento>> \o YearHeaders(S),
       rows |-> [m \in DOMAIN q |-> <<MedName(m)>> \o Times(Cardinality(S), q[m])]]
      : S \in (SUBSET (1..MaxYearCols)) \ {{}},
        q \in SeqsUpTo({<<"1">>, <<"3",".","1","0","0">>}, MaxMeds) \ {<<>>} }

\* one line, one year, any quantity text
CoagCellFiles ==
    { [readable |-> TRUE, header |-> <<medicamento, YearText(2020)>>,
       rows |-> <<<<MedName(1), c>>>>] : c \in CellTexts }

CoagFiles == CoagHeaderFiles \cup CoagTableFiles \cup CoagCellFiles \cup {NoFile}

InitOther ==
    /\ pc = "start"
    /\ screen = <<>>
    /\ df = Unloaded
    /\ intervalo_anos = <<>>
    /\ meds_widget = NoWidget
    /\ df_filtrado = <<>>
    /\ total_anual = <<>>
    /\ comp_anual_medicamento = <<>>
    /\ df_meds = <<>>
    /\ emi_calls = <<>>
    /\ df_ms = Unloaded
    /\ df_hemo = Unloaded
    /\ top_n = TopNDefault
    /\ rank = <<>>

NoFs == [p \in {PATH_HB, PATH_ROCHE} |-> {}]

InitAq ==
    /\ page = "Aquisicoes"
    /\ coag_file \in CoagFiles
    /\ emi_fs = NoFs /\ ms_file = NoTable /\ hemo_file = NoTable
    /\ InitOther

InitEmi ==
    /\ page = "Emicizumabe"
    /\ emi_fs \in [{PATH_HB, PATH_ROCHE} -> SUBSET {";", ",", "None"}]
    /\ coag_file = NoFile /\ ms_file = NoTable /\ hemo_file = NoTable
    /\ InitOther

HemoRow(token, servico, total) ==
    [c \in Range(base_cols) |->
        IF c = ColPeriodo THEN token
        ELSE IF c = ColServico THEN servico
        ELSE IF c = ColTotal THEN total
        ELSE <<"1">>]

HemoTable(rows) == [readable |-> TRUE, header |-> Range(base_cols), rows |-> rows]

Jan19 == Janeiro \o <<"/","1","9">>

\* services 1..k, one line each; the i-th has a total of 1 or of i, so that
\* totals tie in some files and differ in others
HemoRankFiles ==
    UNION { { HemoTable([i \in 1..k |-> HemoRow(Jan19, MedName(i), <<DigitChars[t[i] + 1]>>)])
              : t \in { f \in [1..k -> 1..k] : \A i \in 1..k : f[i] \in {1, i} } }
            : k \in 1..MaxServicos }

\* two services, and a second line for one of them
HemoSumFiles ==
    { HemoTable(<<HemoRow(Jan19, MedName(1), a), HemoRow(Jan19, MedName(2), b),
                  HemoRow(Jan19, MedName(s), c)>>)
      : a \in {<<"1">>, <<"2">>}, b \in {<<"1">>, <<"2">>}, c \in {<<"1">>, <<"2">>},
        s \in {1, 2} }

HemoCellFiles == { HemoTable(<<HemoRow(Jan19, MedName(1), c)>>) : c \in CellTexts }

TokenSamples ==
    { Jan19,
      Dezembro \o <<"/","2","0","2","3">>,
      <<"x","y","z","/","1","9">>,
      Janeiro \o <<"1","9">>,
      <<" ","M","A","R",UpperCCedilla,"O","/","2","1">>,
      Janeiro \o <<"/","1">> }

HemoTokenFiles ==
    { HemoTable([i \in DOMAIN ts |-> HemoRow(ts[i], MedName(i), <<"1">>)])
      : ts \in SeqsUpTo(TokenSamples, MaxTokRows) }

HemoBadFiles ==
    { NoTable,
      [readable |-> TRUE, header |-> Range(base_cols) \ {ColTotal},
       rows |-> <<[c \in Range(base_cols) \ {ColTotal} |-> <<"1">>]>>] }

MSRowIn(ano, qtd) == [c \in {"ano", "quantidade"} |-> IF c = "ano" THEN ano ELSE qtd]

MSTable(rows) == [readable |-> TRUE, header |-> {"ano", "quantidade"}, rows |-> rows]

MSFiles ==
    { MSTable(rows)
      : rows \in SeqsUpTo({MSRowIn(a, q) : a \in {YearText(2020), YearText(2021), <<"x">>},
                                            q \in {<<"5">>, <<"a","b","c">>, <<"i","n","f">>, NA}},
                          MaxMsRows) }

MSBadFiles ==
    { NoTable,
      [readable |-> TRUE, header |-> {"ano"}, rows |-> <<[c \in {"ano"} |-> YearText(2020)]>>] }

MSOne == MSTable(<<MSRowIn(YearText(2020), <<"5">>)>>)
HemoOne == HemoTable(<<HemoRow(Jan19, MedName(1), <<"1">>)>>)

InitHemo ==
    /\ page = "Hemo8R"
    /\ \/ ms_file = MSOne /\ hemo_file \in HemoRankFiles \cup HemoSumFiles \cup HemoCellFiles \cup HemoTokenFiles
       \/ ms_file \in MSFiles /\ hemo_file = HemoOne
       \/ ms_file \in MSBadFiles \cup {MSOne} /\ hemo_file \in HemoBadFiles \cup {HemoOne}
    /\ coag_file = NoFile /\ emi_fs = NoFs
    /\ InitOther

Init == InitAq \/ InitEmi \/ InitHemo

Next ==
    \/ AqLoad \/ AqFilter \/ AqAggregate \/ AqSlider \/ AqMultiselect
    \/ EmiLoad \/ EmiRender
    \/ HemoMS \/ HemoLoad \/ HemoRender \/ HemoSlider

Spec == Init /\ [][Next]_vars

\* load_data on every period token <letters><separator><digits><tail>, and on
\* the sample tokens
PeriodoTokens ==
    TokenSamples \cup
    { l \o sep \o d \o t
      : l \in { Janeiro, Dezembro, MarcoCed, Marco,
                <<"M","A","R",UpperCCedilla,"O">>, <<"D","e","z","e","m","b","r","o">>,
                <<"x","y","z">>, <<>> },
        sep \in { <<"/">>, <<>>, <<"-">> },
        d \in TextsUpTo({"0", "1", "2", "9"}, MaxYearDigits),
        t \in { <<>>, <<"x">> } }

InitPeriodo ==
    /\ page = "Hemo8R"
    /\ ms_file = MSOne
    /\ hemo_file \in { HemoTable(<<HemoRow(tok, MedName(1), <<"1">>)>>) : tok \in PeriodoTokens }
    /\ coag_file = NoFile /\ emi_fs = NoFs
    /\ InitOther

NextPeriodo == HemoMS \/ HemoLoad

SpecPeriodo == InitPeriodo /\ [][NextPeriodo]_vars

-----------------------------------------------------------------------------
(* Properties *)

\* the period token of the one-line services file, and what became of it
Token == hemo_file.rows[1][ColPeriodo]
HemoLoaded == page = "Hemo8R" /\ df_hemo.st # "unloaded"

\* a text split at its first slash: the part before it and the part after it
HasSlash(t) == \E i \in DOMAIN t : t[i] = "/"
SlashAt(t) == CHOOSE i \in DOMAIN t : t[i] = "/" /\ \A j \in 1..(i - 1) : t[j] # "/"
BeforeSlash(t) == SubSeq(t, 1, SlashAt(t) - 1)
AfterSlash(t) == SubSeq(t, SlashAt(t) + 1, Len(t))

\* the text is <month name>/<digits>, the month name being a key of meses in
\* any letter case and the year having 2 or 4 digits
IsMonthYear(t) ==
    /\ HasSlash(t)
    /\ \E it \in meses : it[1] = Lower(BeforeSlash(t))
    /\ AllDigits(AfterSlash(t))
    /\ Len(AfterSlash(t)) \in {2, 4}

MonthWritten(t) == (CHOOSE it \in meses : it[1] = Lower(BeforeSlash(t)))[2]

YearWritten(t) ==
    IF Len(AfterSlash(t)) = 2 THEN 2000 + DigitsToInt(AfterSlash(t))
    ELSE DigitsToInt(AfterSlash(t))

C6_MalformedTokenDropped ==
    (HemoLoaded /\ ~IsMonthYear(Strip(Token))) => (df_hemo.st = "ok" /\ df_hemo.rows = <<>>)

\* C10: every periodo of the table load_data returns is the first day of a
\* month 1..12 of a year 2000..2099, and building the date never raises.
C10_PeriodoInCentury ==
    HemoLoaded =>
        /\ df_hemo.err # "ValueError"
        /\ \A i \in DOMAIN df_hemo.rows :
              LET p == df_hemo.rows[i]["periodo"]
              IN  p.k = "date" /\ p.day = 1 /\ p.month \in 1..12 /\ p.year \in 2000..2099

\* C10's case: a token with a 4-digit year before 2000 was parsed and kept
C10_Witness ==
    /\ HemoLoaded
    /\ Token = Dezembro \o <<"/","1","9","9","9">>
    /\ Len(df_hemo.rows) = 1

\* C2: whatever the text of a quantity cell, the cleaned quantity is finite and
\* not negative (Quantidade of load_coagulopatias_data, the UI columns of
\* load_data), and the cleanup never raises.
C2_QuantityNonNegative ==
    /\ (page = "Aquisicoes" /\ df.st = "ok") =>
          \A i \in DOMAIN df.rows :
              IsFinite(df.rows[i].Quantidade) /\ NonNegative(df.rows[i].Quantidade)
    /\ HemoLoaded =>
          /\ df_hemo.err # "IntCastingNaNError"
          /\ \A i \in DOMAIN df_hemo.rows : \A c \in Range(ui_cols) : df_hemo.rows[i][c] >= 0

\* C4: in every loader a row whose quantity does not parse stays in the table
\* with quantity 0, and only a row whose year or period does not parse is
\* removed.
C4_UnparseableQuantityKept ==
    /\ (page = "Aquisicoes" /\ df.st = "ok") =>
          \A i \in DOMAIN coag_file.rows : \A j \in DOMAIN coag_file.header :
              (Lower(coag_file.header[j]) # medicamento /\ IsFinite(ToNumeric(coag_file.header[j])))
              => \E r \in DOMAIN df.rows :
                    /\ df.rows[r].Ano = AsInt(ToNumeric(coag_file.header[j]))
                    /\ df.rows[r].medicamento \in Range(coag_file.rows[i])
                    /\ (IsNaN(ToNumeric(CleanQuantidade(coag_file.rows[i][j])))
                        => df.rows[r].Quantidade = Num(0, 0))
    /\ (HemoLoaded /\ df_hemo.st = "ok") =>
          \A i \in DOMAIN hemo_file.rows :
              parse_periodo(hemo_file.rows[i][ColPeriodo]).k = "date"
              => \E r \in DOMAIN df_hemo.rows : df_hemo.rows[r]["index"] = i
    /\ (page = "Hemo8R" /\ df_ms.st = "ok") =>
          \A i \in DOMAIN ms_file.rows :
              ~IsNaN(ToNumeric(ms_file.rows[i]["ano"]))
              => \E r \in DOMAIN df_ms.rows :
                    /\ df_ms.rows[r]["index"] = i
                    /\ (IsNaN(ToNumeric(ms_file.rows[i]["quantidade"]))
                        => df_ms.rows[r]["Quantidade"] = Num(0, 0))

IsNumericHeader(h) == h # <<>> /\ AllDigits(h)

\* C7: whatever the letter case of the header "medicamento" and wherever the
\* column stands, load_coagulopatias_data succeeds and returns exactly one row
\* per line and column with a purely numeric header.
C7_IdentifierAnyCase ==
    (page = "Aquisicoes" /\ df.st # "unloaded" /\ coag_file \in CoagHeaderFiles) =>
        /\ df.st = "ok"
        /\ Len(df.rows) =
              Len(coag_file.rows)
              * Cardinality({j \in DOMAIN coag_file.header : IsNumericHeader(coag_file.header[j])})
        /\ \A r \in DOMAIN df.rows :
              \E j \in DOMAIN coag_file.header :
                  /\ IsNumericHeader(coag_file.header[j])
                  /\ df.rows[r].Ano = DigitsToInt(coag_file.header[j])

AqFiltered == page = "Aquisicoes" /\ pc \in {"filtered", "done"}

\* C9: the filtered table holds exactly the rows of the base table with
\* lo <= Ano <= hi, in their order, and the base table is still the one the
\* loader returned, after the filter and after the aggregations.
C9_FilterInclusiveAndPure ==
    /\ (page = "Aquisicoes" /\ df.st = "ok") => df = load_coagulopatias_data(coag_file)
    /\ AqFiltered =>
          /\ \A i \in DOMAIN df.rows :
                (intervalo_anos[1] <= df.rows[i].Ano /\ df.rows[i].Ano <= intervalo_anos[2])
                <=> (\E j \in DOMAIN df_filtrado : df_filtrado[j] = df.rows[i])
          /\ \A j \in DOMAIN df_filtrado : \E i \in DOMAIN df.rows : df_filtrado[j] = df.rows[i]
          /\ \A j, k \in DOMAIN df_filtrado :
                j < k => \E a, b \in DOMAIN df.rows :
                            a < b /\ df.rows[a] = df_filtrado[j] /\ df.rows[b] = df_filtrado[k]

\* C9's case: a range that keeps some rows and excludes others, filtered and
\* aggregated
C9_Witness ==
    /\ page = "Aquisicoes" /\ pc = "done"
    /\ df_filtrado # <<>>
    /\ Len(df_filtrado) < Len(df.rows)
    /\ total_anual # <<>>
    /\ df_meds # <<>>

Order == <<";", ",", "None">>

\* C5: load_csv_auto reads with ';', then ',', then autodetection; it returns
\* the frame of the first read that does not fail and reads no more; it raises
\* exactly when all three reads fail, with a message naming the path.
C5_FirstSuccessInOrder ==
    page = "Emicizumabe" =>
        \A n \in DOMAIN emi_calls :
            LET c     == emi_calls[n]
                fails == emi_fs[c.path]
                last  == c.reads[Len(c.reads)]
            IN  /\ c.reads # <<>>
                /\ c.reads = SubSeq(Order, 1, Len(c.reads))
                /\ \A i \in 1..(Len(c.reads) - 1) : c.reads[i] \in fails
                /\ c.raised <=> Range(Order) \subseteq fails
                /\ ~c.raised => (last \notin fails /\ c.frame = <<c.path, last>>)
                /\ c.raised => (c.reads = Order /\ c.path \in Range(c.msg))

\* C5's case: the first read failed and the second did not; another call failed
\* on all three
C5_Witness ==
    /\ page = "Emicizumabe"
    /\ Len(emi_calls) = 2
    /\ emi_calls[1].reads = <<";", ",">> /\ ~emi_calls[1].raised
    /\ emi_calls[2].raised

Servicos == {df_hemo.rows[i][ColServico] : i \in DOMAIN df_hemo.rows}
Ranked == {rank[i].servico : i \in DOMAIN rank}
TotalOf(servico) == SumServico(df_hemo.rows, servico)
HemoRanked == page = "Hemo8R" /\ pc = "done"

\* C8, the order among equal totals left open: the ranking holds min(n, number of services) distinct
\* services with their summed totals, in descending order of total, and no
\* service left out has a larger total than one that is in.
C8_TopNDescending ==
    HemoRanked =>
        /\ Len(rank) = (IF top_n < Cardinality(Servicos) THEN top_n ELSE Cardinality(Servicos))
        /\ Cardinality(Ranked) = Len(rank)
        /\ Ranked \subseteq Servicos
        /\ \A i \in DOMAIN rank : rank[i].total = TotalOf(rank[i].servico)
        /\ \A i, j \in DOMAIN rank : i < j => rank[i].total >= rank[j].total
        /\ \A e \in Servicos \ Ranked : \A i \in DOMAIN rank : rank[i].total >= TotalOf(e)

\* C8, with stable ties: the ranking is as above and services of equal total
\* are in their order after the group-by (ascending name), also across the cut.
C8_TiesInGroupOrder ==
    HemoRanked =>
        /\ C8_TopNDescending
        /\ \A i, j \in DOMAIN rank :
              (i < j /\ rank[i].total = rank[j].total) => StrLess(rank[i].servico, rank[j].servico)
        /\ \A e \in Servicos \ Ranked : \A i \in DOMAIN rank :
              rank[i].total = TotalOf(e) => StrLess(rank[i].servico, e)

\* C8's case: more services than asked for, two of them with the same total
C8_Witness ==
    /\ HemoRanked
    /\ Cardinality(Servicos) > top_n
    /\ Len(rank) = top_n
    /\ \E i, j \in DOMAIN rank : i < j /\ rank[i].total = rank[j].total

Shown(secs) ==
    {i \in DOMAIN screen : screen[i].sec \in secs /\ screen[i].kind \in {"metric", "chart", "table"}}

LoadFailed ==
    \/ page = "Aquisicoes" /\ df.st = "raise"
    \/ page = "Emicizumabe" /\ \E n \in DOMAIN emi_calls : emi_calls[n].raised
    \/ page = "Hemo8R" /\ pc # "start" /\ (df_ms.st = "raise" \/ df_hemo.st = "raise")

\* C3, for every page alike: when a load of the run has failed no metric,
\* chart or table is on the page.
C3_NothingRenderedOnFailure ==
    LoadFailed => Shown({"aq", "emi", "ms", "servicos"}) = {}

\* C3, page by page: on 1_Aquisicoes and 2_Emicizumabe a failed load leaves the
\* title and the error message and stops the run.  On Hemo_8R a failed
\* load_data shows an error last and stops the run with nothing of the services
\* section rendered (the Ministry section rendered before stays); a failed
\* load_ms_data shows a warning and none of the Ministry section's metrics,
\* chart and table.
C3_FailureByPage ==
    /\ (page \in {"Aquisicoes", "Emicizumabe"} /\ LoadFailed) =>
          /\ pc = "stopped"
          /\ Len(screen) = 2 /\ screen[1].kind = "title" /\ screen[2].kind = "error"
    /\ (page = "Hemo8R" /\ df_hemo.st = "raise") =>
          /\ pc = "stopped"
          /\ screen[Len(screen)] = El("servicos", "error")
          /\ Shown({"servicos"}) = {}
    /\ (page = "Hemo8R" /\ pc # "start" /\ df_ms.st = "raise") =>
          /\ \E i \in DOMAIN screen : screen[i] = El("ms", "warning")
          /\ Shown({"ms"}) = {}

\* C3's case: load_data failed after the Ministry section was rendered
C3_Witness ==
    /\ page = "Hemo8R" /\ df_hemo.st = "raise" /\ pc = "stopped"
    /\ Shown({"ms"}) # {}

====
